---- MODULE Spec2Model ----
(***************************************************************************)
(* State-machine model of the enhanced offline fallback plugin             *)
(* (src/unnamed/part_001): the per-remote circuit breaker registry, the    *)
(* fallback module cache, the withRetry executor with its timers, and the  *)
(* four runtime hooks the plugin returns.                                  *)
(*                                                                         *)
(* JavaScript runs every synchronous stretch of code to completion, so one *)
(* action is one such stretch: a hook call, the start of a withRetry call  *)
(* up to its first await, the settling of an operation promise together    *)
(* with the continuation it resumes, or the firing of one timer.           *)
(***************************************************************************)
EXTENDS Integers, Sequences, FiniteSets, TLC

VARIABLES
    enableCircuitBreaker, \* config.enableCircuitBreaker
    fallbackComponents,   \* config.fallbackComponents: the remote ids that have a custom component
    remoteStates,         \* Map<string, RemoteState>
    fallbackCache,        \* Map<string, module>
    modules,              \* every fallback module object built so far (the heap)
    factory,              \* the closure errorLoadRemote last handed out for lifecycle 'onLoad'
    now,                  \* Date.now()
    timers,               \* pending setTimeout callbacks, in the order they were scheduled
    calls,                \* the withRetry calls made so far, running or finished
    history,              \* per remote, the failure records since the last success record
    fallbackPluginCalls   \* the errorLoadRemote calls made to the lifecycle-based fallback plugin

vars == <<enableCircuitBreaker, fallbackComponents, remoteStates, fallbackCache,
          modules, factory, now, timers, calls, history, fallbackPluginCalls>>

-----------------------------------------------------------------------------
(* Configuration defaults *)

FallbackTimeout == 5000
RetryAttempts == 2
RetryDelay == 1000
CircuitBreakerThreshold == 3
CircuitBreakerResetTimeout == 60000

PluginName == "enhanced-offline-fallback-plugin"

-----------------------------------------------------------------------------
(* Bounds of the model *)

\* withRetry calls made in one behaviour of Spec, RegistrySpec and RetrySpec
MaxCalls == 3
MaxRecords == 6
MaxRetryCalls == 1
\* largest attempts argument handed to withRetry in RetrySpec
MaxAttempts == 3
\* errorLoadRemote calls made to the lifecycle-based fallback plugin in one behaviour
MaxFallbackPluginCalls == 2
\* withRetry calls made in one behaviour of ConcurrentSpec, and under way at once
MaxConcurrentCalls == 3
MaxConcurrent == 2
\* largest attempts argument handed to the one withRetry call of BackoffSpec
MaxBackoffAttempts == 4
\* module objects built in one behaviour of Spec and of CacheSpec
MaxModules == 2
MaxCached == 2

-----------------------------------------------------------------------------
(* Values *)

\* error?: Error.  An absent error has defined = FALSE.
NoError == [defined |-> FALSE, message |-> ""]
Err(m) == [defined |-> TRUE, message |-> m]

TimeoutError == Err("Request timeout")
\* the error the operation's k-th invocation rejects with
OpError(k) == Err("operation failed " \o ToString(k))
\* the value the operation's k-th invocation resolves with
OpResult(k) == k

NoComponent == [kind |-> "none", displayName |-> "", error |-> NoError, serial |-> 0]
NoModule == [remoteId |-> "", error |-> NoError, serial |-> 0, component |-> NoComponent]
NoClosure == [remoteId |-> "", error |-> NoError]
NoArgs == [id |-> ""]
\* What a hook hands to the host runtime: kind is "module", "factory" or "args" for a
\* value returned and "throw" for an error raised.
NoRet == [kind |-> "undefined", module |-> NoModule, closure |-> NoClosure,
          args |-> NoArgs, error |-> NoError]

Returned(kind) == [NoRet EXCEPT !.kind = kind]

DefaultRemoteState == [failureCount |-> 0, lastFailureTime |-> 0, isCircuitOpen |-> FALSE]

-----------------------------------------------------------------------------
(* Remote State Registry and circuit breaker *)

\* getRemoteState: the registry after the lookup, which creates a missing entry
GetRemoteState(rs, remoteId) ==
    IF remoteId \in DOMAIN rs THEN rs ELSE rs @@ (remoteId :> DefaultRemoteState)

ResetTimer(remoteId, t) ==
    [kind |-> "reset", due |-> t + CircuitBreakerResetTimeout, remoteId |-> remoteId,
     call |-> 0, attempt |-> 0]

\* updateRemoteState with the threshold test written > instead of >=
UpdateRemoteStateStrictThreshold(rs, tm, t, ecb, remoteId, isSuccess) ==
    LET got == GetRemoteState(rs, remoteId)
        count == got[remoteId].failureCount + 1
    IN  IF isSuccess
        THEN [rs |-> [got EXCEPT ![remoteId].failureCount = 0,
                                 ![remoteId].isCircuitOpen = FALSE],
              tm |-> tm]
        ELSE IF ecb /\ count > CircuitBreakerThreshold
             THEN [rs |-> [got EXCEPT ![remoteId].failureCount = count,
                                      ![remoteId].lastFailureTime = t,
                                      ![remoteId].isCircuitOpen = TRUE],
                   tm |-> Append(tm, ResetTimer(remoteId, t))]
             ELSE [rs |-> [got EXCEPT ![remoteId].failureCount = count,
                                      ![remoteId].lastFailureTime = t],
                   tm |-> tm]

\* updateRemoteState whose success branch resets the count and leaves the circuit as it is
UpdateRemoteStateKeepsCircuit(rs, tm, t, ecb, remoteId, isSuccess) ==
    LET got == GetRemoteState(rs, remoteId)
        count == got[remoteId].failureCount + 1
    IN  IF isSuccess
        THEN [rs |-> [got EXCEPT ![remoteId].failureCount = 0], tm |-> tm]
        ELSE IF ecb /\ count >= CircuitBreakerThreshold
             THEN [rs |-> [got EXCEPT ![remoteId].failureCount = count,
                                      ![remoteId].lastFailureTime = t,
                                      ![remoteId].isCircuitOpen = TRUE],
                   tm |-> Append(tm, ResetTimer(remoteId, t))]
             ELSE [rs |-> [got EXCEPT ![remoteId].failureCount = count,
                                      ![remoteId].lastFailureTime = t],
                   tm |-> tm]

\* updateRemoteState whose success branch takes one failure off the count
UpdateRemoteStateSuccessDecrements(rs, tm, t, ecb, remoteId, isSuccess) ==
    LET got == GetRemoteState(rs, remoteId)
        count == got[remoteId].failureCount + 1
    IN  IF isSuccess
        THEN [rs |-> [got EXCEPT ![remoteId].failureCount = IF @ > 0 THEN @ - 1 ELSE 0,
                                 ![remoteId].isCircuitOpen = FALSE],
              tm |-> tm]
        ELSE IF ecb /\ count >= CircuitBreakerThreshold
             THEN [rs |-> [got EXCEPT ![remoteId].failureCount = count,
                                      ![remoteId].lastFailureTime = t,
                                      ![remoteId].isCircuitOpen = TRUE],
                   tm |-> Append(tm, ResetTimer(remoteId, t))]
             ELSE [rs |-> [got EXCEPT ![remoteId].failureCount = count,
                                      ![remoteId].lastFailureTime = t],
                   tm |-> tm]

\* updateRemoteState that opens the circuit whether the breaker is enabled or not
UpdateRemoteStateIgnoresSwitch(rs, tm, t, ecb, remoteId, isSuccess) ==
    LET got == GetRemoteState(rs, remoteId)
        count == got[remoteId].failureCount + 1
    IN  IF isSuccess
        THEN [rs |-> [got EXCEPT ![remoteId].failureCount = 0,
                                 ![remoteId].isCircuitOpen = FALSE],
              tm |-> tm]
        ELSE IF count >= CircuitBreakerThreshold
             THEN [rs |-> [got EXCEPT ![remoteId].failureCount = count,
                                      ![remoteId].lastFailureTime = t,
                                      ![remoteId].isCircuitOpen = TRUE],
                   tm |-> Append(tm, ResetTimer(remoteId, t))]
             ELSE [rs |-> [got EXCEPT ![remoteId].failureCount = count,
                                      ![remoteId].lastFailureTime = t],
                   tm |-> tm]

\* updateRemoteState that opens the circuit one failure before the threshold
UpdateRemoteStateOpensEarly(rs, tm, t, ecb, remoteId, isSuccess) ==
    LET got == GetRemoteState(rs, remoteId)
        count == got[remoteId].failureCount + 1
    IN  IF isSuccess
        THEN [rs |-> [got EXCEPT ![remoteId].failureCount = 0,
                                 ![remoteId].isCircuitOpen = FALSE],
              tm |-> tm]
        ELSE IF ecb /\ count >= CircuitBreakerThreshold - 1
             THEN [rs |-> [got EXCEPT ![remoteId].failureCount = count,
                                      ![remoteId].lastFailureTime = t,
                                      ![remoteId].isCircuitOpen = TRUE],
                   tm |-> Append(tm, ResetTimer(remoteId, t))]
             ELSE [rs |-> [got EXCEPT ![remoteId].failureCount = count,
                                      ![remoteId].lastFailureTime = t],
                   tm |-> tm]

\* updateRemoteState that opens the circuit and schedules no reset
UpdateRemoteStateWithoutReset(rs, tm, t, ecb, remoteId, isSuccess) ==
    LET got == GetRemoteState(rs, remoteId)
        count == got[remoteId].failureCount + 1
    IN  IF isSuccess
        THEN [rs |-> [got EXCEPT ![remoteId].failureCount = 0,
                                 ![remoteId].isCircuitOpen = FALSE],
              tm |-> tm]
        ELSE [rs |-> [got EXCEPT ![remoteId].failureCount = count,
                                 ![remoteId].lastFailureTime = t,
                                 ![remoteId].isCircuitOpen =
                                     @ \/ (ecb /\ count >= CircuitBreakerThreshold)],
              tm |-> tm]

\* updateRemoteState at time t: the registry and the timer queue afterwards
UpdateRemoteState(rs, tm, t, ecb, remoteId, isSuccess) ==
    LET got == GetRemoteState(rs, remoteId)
        state == got[remoteId]
    IN  IF isSuccess
        THEN [rs |-> [got EXCEPT ![remoteId].failureCount = 0,
                                 ![remoteId].isCircuitOpen = FALSE],
              tm |-> tm]
        ELSE LET count == state.failureCount + 1
             IN  IF ecb /\ count >= CircuitBreakerThreshold
                 THEN [rs |-> [got EXCEPT ![remoteId].failureCount = count,
                                          ![remoteId].lastFailureTime = t,
                                          ![remoteId].isCircuitOpen = TRUE],
                       tm |-> Append(tm, ResetTimer(remoteId, t))]
                 ELSE [rs |-> [got EXCEPT ![remoteId].failureCount = count,
                                          ![remoteId].lastFailureTime = t],
                       tm |-> tm]

\* isCircuitOpen: the value returned, and the registry after the call
IsCircuitOpen(rs, ecb, remoteId) ==
    IF ~ecb THEN FALSE ELSE GetRemoteState(rs, remoteId)[remoteId].isCircuitOpen

IsCircuitOpenRegistry(rs, ecb, remoteId) ==
    IF ~ecb THEN rs ELSE GetRemoteState(rs, remoteId)

-----------------------------------------------------------------------------
(* Fallback module cache *)

\* createFallbackComponent: a configured component, or a function object built by this call
CreateFallbackComponent(fc, remoteId, error, serial) ==
    IF remoteId \in fc
    THEN [kind |-> "custom", displayName |-> remoteId, error |-> NoError, serial |-> 0]
    ELSE [kind |-> "generated", displayName |-> "FallbackComponent_" \o remoteId,
          error |-> error, serial |-> serial]

\* `${remoteId}_${error?.message || 'default'}`
CacheKey(remoteId, error) ==
    remoteId \o "_" \o (IF error.defined /\ error.message # "" THEN error.message ELSE "default")

\* The object literal built by one createFallbackModule call.  Two objects built from
\* the same arguments are told apart by serial, the number of objects those arguments
\* had built before.
NewModule(mods, fc, remoteId, error) ==
    LET serial == Cardinality({m \in mods : m.remoteId = remoteId /\ m.error = error})
    IN  [remoteId |-> remoteId, error |-> error, serial |-> serial,
         component |-> CreateFallbackComponent(fc, remoteId, error, serial)]

\* createFallbackModule without the cache lookup: every call builds and stores a module
CreateFallbackModuleNoLookup(cache, mods, fc, remoteId, error) ==
    LET cacheKey == CacheKey(remoteId, error)
        fallbackModule == NewModule(mods, fc, remoteId, error)
    IN  [module |-> fallbackModule,
         cache |-> [k \in DOMAIN cache \cup {cacheKey} |->
                        IF k = cacheKey THEN fallbackModule ELSE cache[k]],
         mods |-> mods \cup {fallbackModule}]

\* createFallbackModule: the module returned, the cache and the heap afterwards
CreateFallbackModule(cache, mods, fc, remoteId, error) ==
    LET cacheKey == CacheKey(remoteId, error)
    IN  IF cacheKey \in DOMAIN cache
        THEN [module |-> cache[cacheKey], cache |-> cache, mods |-> mods]
        ELSE LET fallbackModule == NewModule(mods, fc, remoteId, error)
             IN  [module |-> fallbackModule,
                  cache |-> cache @@ (cacheKey :> fallbackModule),
                  mods |-> mods \cup {fallbackModule}]

-----------------------------------------------------------------------------
(* History of the registry, kept beside the program's own state *)

\* run: the failure records for the remote since its last success record
\* clean: the failure records since its last success record or auto-reset
\* openedAt: while the circuit of the remote is open, the time at which it opened
NoHistory == [run |-> 0, clean |-> 0, openedAt |-> 0]

HistoryOf(h, remoteId) == IF remoteId \in DOMAIN h THEN h[remoteId] ELSE NoHistory

\* state.isCircuitOpen of the remote in registry rs, false while it has no entry
FlagOpen(rs, remoteId) == remoteId \in DOMAIN rs /\ rs[remoteId].isCircuitOpen

\* the history after a step that is the given event for the remote; the step's registry
\* before and after tells whether it opened the circuit
Recorded(h, remoteId, event) ==
    LET old == HistoryOf(h, remoteId)
        openedAt == IF ~FlagOpen(remoteStates', remoteId) THEN 0
                    ELSE IF FlagOpen(remoteStates, remoteId) THEN old.openedAt
                    ELSE now
        new == CASE event = "failure" -> [run |-> old.run + 1, clean |-> old.clean + 1,
                                          openedAt |-> openedAt]
                 [] event = "success" -> NoHistory
                 [] event = "reset" -> [run |-> old.run, clean |-> 0, openedAt |-> openedAt]
                 [] OTHER -> old
    IN  IF event = "none" THEN h
        ELSE [k \in DOMAIN h \cup {remoteId} |-> IF k = remoteId THEN new ELSE h[k]]

\* what a step of a withRetry call reported to the registry
EventOf(before, after) ==
    IF after.nFailure > before.nFailure THEN "failure"
    ELSE IF after.nSuccess > before.nSuccess THEN "success"
    ELSE "none"

-----------------------------------------------------------------------------
(* Retry executor: withRetry *)

TimeoutTimer(c, attempt, t) ==
    [kind |-> "timeout", due |-> t + FallbackTimeout, remoteId |-> "", call |-> c,
     attempt |-> attempt]

\* a backoff that doubles: retryDelay * 2^i
BackoffDelayExponential(i) == RetryDelay * 2^i

\* a backoff that waits retryDelay after every failed attempt
BackoffDelayConstant(i) == RetryDelay

\* retryDelay * (i + 1)
BackoffDelay(i) == RetryDelay * (i + 1)

BackoffTimer(c, i, t) ==
    [kind |-> "backoff", due |-> t + BackoffDelay(i), remoteId |-> "", call |-> c,
     attempt |-> i]

\* A withRetry call at its entry: i = 0, lastError not yet assigned.
\*   pending     the attempts whose operation promise has not settled
\*   outcomes    how each attempt's race ended, in order
\*   started     the time of each invocation of operation(), in order
\*   ended       the time each attempt's race ended, in order
\*   settledAt   the time the call returned or threw
\*   nSuccess, nFailure   the updateRemoteState calls this call has made
NewCall(remoteId, attempts) ==
    [remoteId |-> remoteId, attempts |-> attempts, i |-> 0, pc |-> "start",
     opCount |-> 0, pending |-> {}, lastError |-> NoError, result |-> 0,
     outcomes |-> <<>>, started |-> <<>>, ended |-> <<>>, settledAt |-> 0,
     nSuccess |-> 0, nFailure |-> 0]

\* an end of the loop whose failure report is lost while another call is under way
ExhaustedLosesUpdate(call, rs, tm, t, ecb) ==
    LET u == UpdateRemoteState(rs, tm, t, ecb, call.remoteId, FALSE)
        busy == \E c \in 1..Len(calls) : calls[c].pc \in {"race", "backoff"}
                                           /\ calls[c].started # call.started
    IN  [call |-> [call EXCEPT !.pc = "rejected", !.settledAt = t, !.nFailure = @ + 1],
         rs |-> IF busy THEN rs ELSE u.rs,
         tm |-> IF busy THEN tm ELSE u.tm]

\* "All attempts failed": updateRemoteState(remoteId, false); throw lastError
Exhausted(call, rs, tm, t, ecb) ==
    LET u == UpdateRemoteState(rs, tm, t, ecb, call.remoteId, FALSE)
    IN  [call |-> [call EXCEPT !.pc = "rejected", !.settledAt = t, !.nFailure = @ + 1],
         rs |-> u.rs, tm |-> u.tm]

\* i < attempts - 1
MoreAttempts(i, attempts) == i < attempts - 1

\* a catch block that keeps the first error it saw
CatchKeepsFirstError(c, call, error, rs, tm, t, ecb) ==
    LET caught == [call EXCEPT !.lastError = IF @.defined THEN @ ELSE error,
                               !.ended = Append(@, t),
                               !.outcomes = Append(@, IF error = TimeoutError
                                                       THEN "timeout" ELSE "failed")]
    IN  IF MoreAttempts(call.i, call.attempts)
        THEN [call |-> [caught EXCEPT !.pc = "backoff"],
              rs |-> rs,
              tm |-> Append(tm, BackoffTimer(c, call.i, t))]
        ELSE Exhausted([caught EXCEPT !.i = @ + 1], rs, tm, t, ecb)

\* a catch block that gives up at the first timeout
CatchTimeoutFatal(c, call, error, rs, tm, t, ecb) ==
    LET caught == [call EXCEPT !.lastError = error,
                               !.ended = Append(@, t),
                               !.outcomes = Append(@, IF error = TimeoutError
                                                       THEN "timeout" ELSE "failed")]
    IN  IF MoreAttempts(call.i, call.attempts) /\ error # TimeoutError
        THEN [call |-> [caught EXCEPT !.pc = "backoff"],
              rs |-> rs,
              tm |-> Append(tm, BackoffTimer(c, call.i, t))]
        ELSE Exhausted([caught EXCEPT !.i = @ + 1], rs, tm, t, ecb)

\* The catch block of attempt i, followed by the backoff wait or by the end of the loop
Catch(c, call, error, rs, tm, t, ecb) ==
    LET caught == [call EXCEPT !.lastError = error,
                               !.ended = Append(@, t),
                               !.outcomes = Append(@, IF error = TimeoutError
                                                       THEN "timeout" ELSE "failed")]
    IN  IF MoreAttempts(call.i, call.attempts)
        THEN [call |-> [caught EXCEPT !.pc = "backoff"],
              rs |-> rs,
              tm |-> Append(tm, BackoffTimer(c, call.i, t))]
        ELSE Exhausted([caught EXCEPT !.i = @ + 1], rs, tm, t, ecb)

\* a success path that returns the result and reports nothing to the registry
SucceedWithoutReport(call, rs, tm, t, ecb) ==
    [call |-> [call EXCEPT !.pc = "resolved", !.result = OpResult(call.i + 1),
                           !.ended = Append(@, t), !.settledAt = t,
                           !.outcomes = Append(@, "ok")],
     rs |-> rs, tm |-> tm]

\* The try block's success path: updateRemoteState(remoteId, true); return result
Succeed(call, rs, tm, t, ecb) ==
    LET u == UpdateRemoteState(rs, tm, t, ecb, call.remoteId, TRUE)
    IN  [call |-> [call EXCEPT !.pc = "resolved", !.result = OpResult(call.i + 1),
                               !.ended = Append(@, t), !.settledAt = t,
                               !.outcomes = Append(@, "ok"), !.nSuccess = @ + 1],
         rs |-> u.rs, tm |-> u.tm]

\* an attempt that awaits the operation alone, with no timeout to race it
AttemptWithoutTimeout(c, call, throws, rs, tm, t, ecb) ==
    IF call.i < call.attempts
    THEN LET invoked == [call EXCEPT !.opCount = @ + 1, !.started = Append(@, t)]
         IN  IF throws
             THEN Catch(c, invoked, OpError(invoked.opCount), rs, tm, t, ecb)
             ELSE [call |-> [invoked EXCEPT !.pc = "race", !.pending = @ \cup {call.i}],
                   rs |-> rs,
                   tm |-> tm]
    ELSE Exhausted(call, rs, tm, t, ecb)

\* The loop test with i as it stands, and the invocation of operation() when it passes.
\* throws: operation() throws before returning a promise, so no race is set up.
Attempt(c, call, throws, rs, tm, t, ecb) ==
    IF call.i < call.attempts
    THEN LET invoked == [call EXCEPT !.opCount = @ + 1, !.started = Append(@, t)]
         IN  IF throws
             THEN Catch(c, invoked, OpError(invoked.opCount), rs, tm, t, ecb)
             ELSE [call |-> [invoked EXCEPT !.pc = "race", !.pending = @ \cup {call.i}],
                   rs |-> rs,
                   tm |-> Append(tm, TimeoutTimer(c, call.i, t))]
    ELSE Exhausted(call, rs, tm, t, ecb)

\* withRetry(operation, remoteId, attempts) up to its first await
WithRetry(remoteId, attempts, throws) ==
    /\ LET c == Len(calls) + 1
           r == Attempt(c, NewCall(remoteId, attempts), throws, remoteStates, timers,
                        now, enableCircuitBreaker)
       IN  /\ calls' = Append(calls, r.call)
           /\ remoteStates' = r.rs
           /\ timers' = r.tm
           /\ history' = Recorded(history, r.call.remoteId, EventOf(NewCall(remoteId, attempts), r.call))
    /\ UNCHANGED <<fallbackPluginCalls, enableCircuitBreaker, fallbackComponents, fallbackCache, modules,
                   factory, now>>

\* a settling operation promise that resumes the call whichever attempt is under way
OperationSettlesAnyTime(c, a, ok) ==
    /\ c \in 1..Len(calls)
    /\ a \in calls[c].pending
    /\ LET call == [calls[c] EXCEPT !.pending = @ \ {a}]
           r == IF call.pc = "race"
                THEN IF ok
                     THEN Succeed(call, remoteStates, timers, now, enableCircuitBreaker)
                     ELSE Catch(c, call, OpError(a + 1), remoteStates, timers, now,
                                enableCircuitBreaker)
                ELSE [call |-> call, rs |-> remoteStates, tm |-> timers]
       IN  /\ calls' = [calls EXCEPT ![c] = r.call]
           /\ remoteStates' = r.rs
           /\ timers' = r.tm
           /\ history' = Recorded(history, r.call.remoteId, EventOf(calls[c], r.call))
    /\ UNCHANGED <<fallbackPluginCalls, enableCircuitBreaker, fallbackComponents, fallbackCache, modules,
                   factory, now>>

\* The operation promise of attempt a of call c settles.  It resumes the call when the
\* race of that attempt is still undecided; a promise that lost its race changes nothing.
OperationSettles(c, a, ok) ==
    /\ c \in 1..Len(calls)
    /\ a \in calls[c].pending
    /\ LET call == [calls[c] EXCEPT !.pending = @ \ {a}]
           r == IF call.pc = "race" /\ call.i = a
                THEN IF ok
                     THEN Succeed(call, remoteStates, timers, now, enableCircuitBreaker)
                     ELSE Catch(c, call, OpError(a + 1), remoteStates, timers, now,
                                enableCircuitBreaker)
                ELSE [call |-> call, rs |-> remoteStates, tm |-> timers]
       IN  /\ calls' = [calls EXCEPT ![c] = r.call]
           /\ remoteStates' = r.rs
           /\ timers' = r.tm
           /\ history' = Recorded(history, r.call.remoteId, EventOf(calls[c], r.call))
    /\ UNCHANGED <<fallbackPluginCalls, enableCircuitBreaker, fallbackComponents, fallbackCache, modules,
                   factory, now>>

\* A settled call whose caller has taken the outcome; its late promises are still out
Taken(call) == [NewCall("", 0) EXCEPT !.pc = "taken", !.pending = call.pending]

Settled(call) == call.pc \in {"resolved", "rejected"}

\* The caller's await of withRetry ends: it gets the result (return result) or the
\* error (throw lastError)
TakeOutcome(c) ==
    /\ c \in 1..Len(calls)
    /\ Settled(calls[c])
    /\ calls' = [calls EXCEPT ![c] = Taken(calls[c])]
    /\ UNCHANGED <<fallbackPluginCalls, enableCircuitBreaker, fallbackComponents, remoteStates, fallbackCache,
                   modules, factory, now, timers, history>>

-----------------------------------------------------------------------------
(* Timers *)

IsDue(k) == timers[k].due <= now

\* the timer the event loop runs next: the earliest due, the first scheduled among equals
NextTimer ==
    CHOOSE k \in 1..Len(timers) :
        /\ IsDue(k)
        /\ \A j \in 1..Len(timers) :
               IsDue(j) => \/ timers[k].due < timers[j].due
                           \/ (timers[k].due = timers[j].due /\ k <= j)

SomeTimerDue == \E k \in 1..Len(timers) : IsDue(k)

RemoveAt(seq, k) == SubSeq(seq, 1, k - 1) \o SubSeq(seq, k + 1, Len(seq))

\* a reset callback that closes the circuit on probation: one more failure reopens it
FireResetOnProbation ==
    /\ SomeTimerDue
    /\ timers[NextTimer].kind = "reset"
    /\ LET remoteId == timers[NextTimer].remoteId
       IN  remoteStates' = [remoteStates EXCEPT
                                ![remoteId].isCircuitOpen = FALSE,
                                ![remoteId].failureCount = CircuitBreakerThreshold - 1]
    /\ timers' = RemoveAt(timers, NextTimer)
    /\ history' = Recorded(history, timers[NextTimer].remoteId, "reset")
    /\ UNCHANGED <<fallbackPluginCalls, enableCircuitBreaker, fallbackComponents, fallbackCache, modules,
                   factory, now, calls>>

\* The auto-reset callback scheduled by updateRemoteState
FireReset ==
    /\ SomeTimerDue
    /\ timers[NextTimer].kind = "reset"
    /\ LET remoteId == timers[NextTimer].remoteId
       IN  remoteStates' = [remoteStates EXCEPT ![remoteId].isCircuitOpen = FALSE,
                                                ![remoteId].failureCount = 0]
    /\ timers' = RemoveAt(timers, NextTimer)
    /\ history' = Recorded(history, timers[NextTimer].remoteId, "reset")
    /\ UNCHANGED <<fallbackPluginCalls, enableCircuitBreaker, fallbackComponents, fallbackCache, modules,
                   factory, now, calls>>

\* The per-attempt timeout callback: reject(new Error('Request timeout'))
FireTimeout ==
    /\ SomeTimerDue
    /\ timers[NextTimer].kind = "timeout"
    /\ LET c == timers[NextTimer].call
           a == timers[NextTimer].attempt
           rest == RemoveAt(timers, NextTimer)
           r == IF calls[c].pc = "race" /\ calls[c].i = a
                THEN Catch(c, calls[c], TimeoutError, remoteStates, rest, now,
                           enableCircuitBreaker)
                ELSE [call |-> calls[c], rs |-> remoteStates, tm |-> rest]
       IN  /\ calls' = [calls EXCEPT ![c] = r.call]
           /\ remoteStates' = r.rs
           /\ timers' = r.tm
           /\ history' = Recorded(history, r.call.remoteId, EventOf(calls[c], r.call))
    /\ UNCHANGED <<fallbackPluginCalls, enableCircuitBreaker, fallbackComponents, fallbackCache, modules,
                   factory, now>>

\* The backoff wait ends: i++ and the next turn of the loop
FireBackoff(throws) ==
    /\ SomeTimerDue
    /\ timers[NextTimer].kind = "backoff"
    /\ LET c == timers[NextTimer].call
           rest == RemoveAt(timers, NextTimer)
           r == Attempt(c, [calls[c] EXCEPT !.i = @ + 1], throws, remoteStates, rest,
                        now, enableCircuitBreaker)
       IN  /\ calls' = [calls EXCEPT ![c] = r.call]
           /\ remoteStates' = r.rs
           /\ timers' = r.tm
           /\ history' = Recorded(history, r.call.remoteId, EventOf(calls[c], r.call))
    /\ UNCHANGED <<fallbackPluginCalls, enableCircuitBreaker, fallbackComponents, fallbackCache, modules,
                   factory, now>>

\* Time passes until the next timer is due
AdvanceTime ==
    /\ timers # <<>>
    /\ ~SomeTimerDue
    /\ \E k \in 1..Len(timers) :
           /\ \A j \in 1..Len(timers) : timers[k].due <= timers[j].due
           /\ now' = timers[k].due
    /\ UNCHANGED <<fallbackPluginCalls, enableCircuitBreaker, fallbackComponents, remoteStates, fallbackCache,
                   modules, factory, timers, calls, history>>

-----------------------------------------------------------------------------
(* The hooks of the returned plugin object.  For each hook, the value it hands back in
   the current state and the action that is the call. *)

\* a || b || 'unknown' on strings: the empty string and undefined are both falsy
OrUnknown(a, b) == IF a # "" THEN a ELSE IF b # "" THEN b ELSE "unknown"

\* beforeRequest(args), called with a receiver whose name is thisName
BeforeRequestResult(thisName, args) ==
    LET remoteId == OrUnknown(thisName, "")
    IN  IF IsCircuitOpen(remoteStates, enableCircuitBreaker, remoteId)
        THEN [Returned("throw") EXCEPT
                  !.error = Err("Circuit breaker open for remote: " \o remoteId)]
        ELSE [Returned("args") EXCEPT !.args = args]

BeforeRequest(thisName, args) ==
    /\ remoteStates' = IsCircuitOpenRegistry(remoteStates, enableCircuitBreaker,
                                             OrUnknown(thisName, ""))
    /\ UNCHANGED <<fallbackPluginCalls, enableCircuitBreaker, fallbackComponents, fallbackCache, modules,
                   factory, now, timers, calls, history>>

\* the 'beforeRequest' / 'loadEntry' arm consults the breaker before building the fallback
ConsultsBreaker(lifecycle) == lifecycle \in {"beforeRequest", "loadEntry"}

\* errorLoadRemote whose switch has no default arm: other lifecycles fall out of it
ErrorLoadRemoteResultNoDefault(id, from, error, lifecycle) ==
    LET remoteId == OrUnknown(id, from)
    IN  IF lifecycle = "onLoad"
        THEN [Returned("factory") EXCEPT !.closure = [remoteId |-> remoteId, error |-> error]]
        ELSE IF lifecycle \in {"beforeRequest", "loadEntry"}
        THEN [Returned("module") EXCEPT
                  !.module = CreateFallbackModule(fallbackCache, modules, fallbackComponents,
                                                  remoteId, error).module]
        ELSE NoRet

\* errorLoadRemote that hands back a factory at every lifecycle
ErrorLoadRemoteResultAllFactories(id, from, error, lifecycle) ==
    [Returned("factory") EXCEPT
         !.closure = [remoteId |-> OrUnknown(id, from), error |-> error]]

\* errorLoadRemote({ id, error, from, lifecycle }): the value the returned promise
\* resolves with
ErrorLoadRemoteResult(id, from, error, lifecycle) ==
    LET remoteId == OrUnknown(id, from)
    IN  IF lifecycle = "onLoad"
        THEN [Returned("factory") EXCEPT !.closure = [remoteId |-> remoteId, error |-> error]]
        ELSE [Returned("module") EXCEPT
                  !.module = CreateFallbackModule(fallbackCache, modules, fallbackComponents,
                                                  remoteId, error).module]

\* an errorLoadRemote that reports the failure it handles to the registry
ErrorLoadRemoteRecordsFailure(id, from, error, lifecycle) ==
    LET remoteId == OrUnknown(id, from)
        result == ErrorLoadRemoteResult(id, from, error, lifecycle)
        u == UpdateRemoteState(remoteStates, timers, now, enableCircuitBreaker, remoteId, FALSE)
    IN  /\ remoteStates' = u.rs
        /\ timers' = u.tm
        /\ history' = Recorded(history, remoteId, "failure")
        /\ IF result.kind = "factory"
           THEN /\ factory' = result.closure
                /\ UNCHANGED <<fallbackCache, modules>>
           ELSE LET r == CreateFallbackModule(fallbackCache, modules, fallbackComponents,
                                              remoteId, error)
                IN  /\ fallbackCache' = r.cache
                    /\ modules' = r.mods
                    /\ UNCHANGED factory
        /\ UNCHANGED <<fallbackPluginCalls, enableCircuitBreaker, fallbackComponents, now, calls>>

ErrorLoadRemote(id, from, error, lifecycle) ==
    LET remoteId == OrUnknown(id, from)
        result == ErrorLoadRemoteResult(id, from, error, lifecycle)
    IN  /\ remoteStates' = IF ConsultsBreaker(lifecycle)
                           THEN IsCircuitOpenRegistry(remoteStates, enableCircuitBreaker,
                                                      remoteId)
                           ELSE remoteStates
        /\ IF result.kind = "factory"
           THEN /\ factory' = result.closure
                /\ UNCHANGED <<fallbackCache, modules>>
           ELSE LET r == CreateFallbackModule(fallbackCache, modules, fallbackComponents,
                                              remoteId, error)
                IN  /\ fallbackCache' = r.cache
                    /\ modules' = r.mods
                    /\ UNCHANGED factory
        /\ UNCHANGED <<fallbackPluginCalls, enableCircuitBreaker, fallbackComponents, now, timers, calls, history>>

\* a factory that builds a module of its own at every invocation
FactoryResultFresh(f) == NewModule(modules, fallbackComponents, f.remoteId, f.error)

\* What the factory () => createFallbackModule(remoteId, error) yields when invoked now
FactoryResult(f) ==
    CreateFallbackModule(fallbackCache, modules, fallbackComponents, f.remoteId, f.error).module

\* The host runtime invokes the factory it holds.  A factory's effect depends only on the
\* remote id and error it captured, and the host can get any of them again from
\* errorLoadRemote, so the model keeps the last one.
InvokeFactory(f) ==
    /\ f = factory
    /\ f # NoClosure
    /\ LET r == CreateFallbackModule(fallbackCache, modules, fallbackComponents,
                                     f.remoteId, f.error)
       IN  /\ fallbackCache' = r.cache
           /\ modules' = r.mods
    /\ UNCHANGED <<fallbackPluginCalls, enableCircuitBreaker, fallbackComponents, remoteStates, factory, now,
                   timers, calls, history>>

\* onLoad(args)
OnLoadResult(args) == [Returned("args") EXCEPT !.args = args]

\* an onLoad that also drops the cached fallbacks of the remote it reports
OnLoadEvictsFallbacks(args) ==
    LET remoteId == OrUnknown(args.id, "")
        u == UpdateRemoteState(remoteStates, timers, now, enableCircuitBreaker, remoteId, TRUE)
        kept == {k \in DOMAIN fallbackCache : fallbackCache[k].remoteId # remoteId}
    IN  /\ remoteStates' = u.rs
        /\ timers' = u.tm
        /\ history' = Recorded(history, remoteId, "success")
        /\ fallbackCache' = [k \in kept |-> fallbackCache[k]]
        /\ UNCHANGED <<fallbackPluginCalls, enableCircuitBreaker, fallbackComponents, modules,
                       factory, now, calls>>

OnLoad(args) ==
    LET remoteId == OrUnknown(args.id, "")
        u == UpdateRemoteState(remoteStates, timers, now, enableCircuitBreaker, remoteId, TRUE)
    IN  /\ remoteStates' = u.rs
        /\ timers' = u.tm
        /\ history' = Recorded(history, remoteId, "success")
        /\ UNCHANGED <<fallbackPluginCalls, enableCircuitBreaker, fallbackComponents, fallbackCache, modules,
                       factory, now, calls>>

\* init(args)
InitResult(args) == [Returned("args") EXCEPT !.args = args]

InitHook(args) ==
    UNCHANGED <<fallbackPluginCalls, enableCircuitBreaker, fallbackComponents, remoteStates, fallbackCache,
                modules, factory, now, timers, calls, history>>

-----------------------------------------------------------------------------
(* Inputs *)

Lifecycles == {"beforeRequest", "loadEntry", "afterResolve", "beforeLoadShare", "onLoad",
               "unrecognized"}
ThisNames == {PluginName, ""}

\* The state after enhancedOfflineFallbackPlugin(config) has returned
InitWith(breaker, components) ==
    /\ enableCircuitBreaker \in breaker
    /\ fallbackComponents \in components
    /\ remoteStates = <<>>
    /\ fallbackCache = <<>>
    /\ modules = {}
    /\ factory = NoClosure
    /\ now = 0
    /\ timers = <<>>
    /\ calls = <<>>
    /\ history = <<>>
    /\ fallbackPluginCalls = <<>>

AllTaken == \A c \in 1..Len(calls) : calls[c].pc = "taken"

-----------------------------------------------------------------------------
(* The lifecycle-based fallback plugin: fallbackPlugin(config).errorLoadRemote.  It keeps
   no state of its own; a call is an async function that awaits the import of react, or
   the backup fetch and the read of its body. *)

\* config.errorMessage, the default
ErrorMessage == "Fallback error. Module loading failed, please try again later"

\* JavaScript values, as far as the hook's results and the host's test of them go
Undefined == [type |-> "undefined", bool |-> FALSE, num |-> 0, str |-> "", ref |-> ""]
JsNull == [Undefined EXCEPT !.type = "null"]
JsBoolean(b) == [Undefined EXCEPT !.type = "boolean", !.bool = b]
JsNumber(n) == [Undefined EXCEPT !.type = "number", !.num = n]
JsString(str) == [Undefined EXCEPT !.type = "string", !.str = str]
JsObject(ref) == [Undefined EXCEPT !.type = "object", !.ref = ref]
JsFunction(ref) == [Undefined EXCEPT !.type = "function", !.ref = ref]

\* ToBoolean: what the host runtime's test of a hook result sees
ToBoolean(v) ==
    CASE v.type \in {"undefined", "null"} -> FALSE
      [] v.type = "boolean" -> v.bool
      [] v.type = "number" -> v.num # 0
      [] v.type = "string" -> v.str # ""
      [] OTHER -> TRUE

\* the bodies the backup server answers with
BackupManifestText == "{\"id\":\"backup\"}"
Bodies == {BackupManifestText, "null", "false", "0", "\"\"", "<html>"}

\* response.json(): the parsed body, or a SyntaxError
JsonParse(text) ==
    CASE text = BackupManifestText -> [ok |-> TRUE, value |-> JsObject("backupManifest")]
      [] text = "null" -> [ok |-> TRUE, value |-> JsNull]
      [] text = "false" -> [ok |-> TRUE, value |-> JsBoolean(FALSE)]
      [] text = "0" -> [ok |-> TRUE, value |-> JsNumber(0)]
      [] text = "\"\"" -> [ok |-> TRUE, value |-> JsString("")]
      [] OTHER -> [ok |-> FALSE, value |-> Undefined]

\* React.memo(() => React.createElement("div", { style }, errorMessage)) with its
\* displayName
FallbackComponent == [displayName |-> "ErrorFallbackComponent", children |-> ErrorMessage]

\* what the factory () => ({ __esModule: true, default: FallbackComponent }) yields
FallbackFactoryResult == [esModule |-> TRUE, default |-> FallbackComponent]

\* An errorLoadRemote call of the lifecycle-based plugin at its entry.
\*   pc        "import", "fetch", "json": the await it is suspended at; "resolved",
\*             "rejected": how its promise settled
\*   fetched   how the backup fetch ended: "throws", "notOk" or "ok"
\*   body      the body of an OK answer, once read
\*   result    the value the promise resolved with
NewFallbackPluginCall(id, lifecycle) ==
    [args |-> [id |-> id, lifecycle |-> lifecycle], pc |-> "start", fetched |-> "none",
     body |-> "", result |-> Undefined]

\* return args
ReturnArgs(call) == [call EXCEPT !.pc = "resolved", !.result = JsObject("args")]

\* errorLoadRemote(args) up to its first await
FallbackPluginErrorLoadRemote(id, lifecycle) ==
    /\ LET call == NewFallbackPluginCall(id, lifecycle)
           next == IF lifecycle = "onLoad" THEN [call EXCEPT !.pc = "import"]
                   ELSE IF lifecycle = "afterResolve" THEN [call EXCEPT !.pc = "fetch"]
                   ELSE ReturnArgs(call)
       IN  fallbackPluginCalls' = Append(fallbackPluginCalls, next)
    /\ UNCHANGED <<enableCircuitBreaker, fallbackComponents, remoteStates, fallbackCache,
                   modules, factory, now, timers, calls, history>>

\* await import("react") settles: the call returns the factory, or the import's error
\* leaves the hook
ImportSettles(c, ok) ==
    /\ c \in 1..Len(fallbackPluginCalls)
    /\ fallbackPluginCalls[c].pc = "import"
    /\ fallbackPluginCalls' =
           [fallbackPluginCalls EXCEPT
                ![c] = IF ok THEN [@ EXCEPT !.pc = "resolved", !.result = JsFunction("factory")]
                       ELSE [@ EXCEPT !.pc = "rejected"]]
    /\ UNCHANGED <<enableCircuitBreaker, fallbackComponents, remoteStates, fallbackCache,
                   modules, factory, now, timers, calls, history>>

\* await fetch(backupEntryUrl) settles: fetch throws, or answers with response.ok false
\* (the hook throws), and the catch block returns args; or it answers OK and the hook
\* awaits response.json()
FetchSettles(c, outcome) ==
    /\ c \in 1..Len(fallbackPluginCalls)
    /\ fallbackPluginCalls[c].pc = "fetch"
    /\ outcome \in {"throws", "notOk", "ok"}
    /\ fallbackPluginCalls' =
           [fallbackPluginCalls EXCEPT
                ![c] = IF outcome = "ok" THEN [@ EXCEPT !.pc = "json", !.fetched = outcome]
                       ELSE ReturnArgs([@ EXCEPT !.fetched = outcome])]
    /\ UNCHANGED <<enableCircuitBreaker, fallbackComponents, remoteStates, fallbackCache,
                   modules, factory, now, timers, calls, history>>

\* await response.json() settles: the hook returns the parsed body, or the SyntaxError is
\* caught and it returns args
JsonSettles(c, body) ==
    /\ c \in 1..Len(fallbackPluginCalls)
    /\ fallbackPluginCalls[c].pc = "json"
    /\ LET parsed == JsonParse(body)
       IN  fallbackPluginCalls' =
               [fallbackPluginCalls EXCEPT
                    ![c] = IF parsed.ok
                           THEN [@ EXCEPT !.pc = "resolved", !.body = body,
                                          !.result = parsed.value]
                           ELSE ReturnArgs([@ EXCEPT !.body = body])]
    /\ UNCHANGED <<enableCircuitBreaker, fallbackComponents, remoteStates, fallbackCache,
                   modules, factory, now, timers, calls, history>>

-----------------------------------------------------------------------------
(* Spec: the plugin as a whole.  The hooks are called by the host runtime; withRetry
   is called with operations that throw at once, so that a call is one step, and by
   one caller that takes the outcome of a call before it makes the next. *)

Ids == {"", "foo"}
Froms == {""}
Errors == {NoError, Err("404")}
RetryRemotes == {"foo", "unknown"}

Init == InitWith(BOOLEAN, {{"foo"}})

Next ==
    \/ \E thisName \in ThisNames : BeforeRequest(thisName, [id |-> "foo"])
    \/ \E id \in Ids, from \in Froms, error \in Errors, lifecycle \in Lifecycles :
           /\ ErrorLoadRemote(id, from, error, lifecycle)
           /\ Cardinality(modules') <= MaxModules
    \/ /\ InvokeFactory(factory)
       /\ Cardinality(modules') <= MaxModules
    \/ \E id \in Ids : OnLoad([id |-> id])
    \/ InitHook([id |-> "foo"])
    \/ \E remoteId \in RetryRemotes, attempts \in 0..1 :
           /\ Len(calls) < MaxCalls
           /\ AllTaken
           /\ WithRetry(remoteId, attempts, TRUE)
    \/ \E c \in 1..Len(calls) : TakeOutcome(c)
    \/ FireReset
    \/ AdvanceTime

Spec == Init /\ [][Next]_vars

-----------------------------------------------------------------------------
(* RegistrySpec: the registry and the breaker alone, over more failure records.  One
   caller makes withRetry calls, one after the other, with operations that throw. *)

RegistryNext ==
    \/ \E thisName \in ThisNames : BeforeRequest(thisName, [id |-> "foo"])
    \/ \E id \in Ids : OnLoad([id |-> id])
    \/ \E remoteId \in RetryRemotes, attempts \in 0..1 :
           /\ Len(calls) < MaxRecords
           /\ AllTaken
           /\ WithRetry(remoteId, attempts, TRUE)
    \/ \E c \in 1..Len(calls) : TakeOutcome(c)
    \/ FireReset
    \/ AdvanceTime

RegistrySpec == Init /\ [][RegistryNext]_vars

\* The same, with the event loop running every timer that is set: time reaches the next
\* due time and a due callback is run.
RegistryLiveSpec ==
    Init /\ [][RegistryNext]_vars /\ WF_vars(AdvanceTime) /\ WF_vars(FireReset)

-----------------------------------------------------------------------------
(* RetrySpec: withRetry in full.  Each invocation of the operation throws, or returns
   a promise that resolves, rejects or stays pending; a promise that outlives its
   attempt's timeout may settle at any later time. *)

AttemptArgs == 0..MaxAttempts

\* withRetry(operation, remoteId): attempts = retryAttempts
WithRetryDefault(remoteId, throws) == WithRetry(remoteId, RetryAttempts, throws)

RetryInit == InitWith({TRUE}, {{"foo"}})

RetryNext ==
    \/ \E attempts \in AttemptArgs, throws \in BOOLEAN :
           /\ Len(calls) < MaxRetryCalls
           /\ AllTaken
           /\ WithRetry("foo", attempts, throws)
    \/ \E throws \in BOOLEAN :
           /\ Len(calls) < MaxRetryCalls
           /\ AllTaken
           /\ WithRetryDefault("foo", throws)
    \/ \E c \in 1..Len(calls), a \in 0..MaxAttempts, ok \in BOOLEAN : OperationSettles(c, a, ok)
    \/ \E c \in 1..Len(calls) : TakeOutcome(c)
    \/ FireTimeout
    \/ \E throws \in BOOLEAN : FireBackoff(throws)
    \/ AdvanceTime

RetrySpec == RetryInit /\ [][RetryNext]_vars

-----------------------------------------------------------------------------
(* BackoffSpec: one withRetry call of up to MaxBackoffAttempts attempts, long enough for
   three waits in a row. *)

BackoffNext ==
    \/ \E attempts \in 0..MaxBackoffAttempts, throws \in BOOLEAN :
           /\ calls = <<>>
           /\ WithRetry("foo", attempts, throws)
    \/ \E c \in 1..Len(calls), a \in 0..MaxBackoffAttempts, ok \in BOOLEAN :
           OperationSettles(c, a, ok)
    \/ \E c \in 1..Len(calls) : TakeOutcome(c)
    \/ FireTimeout
    \/ \E throws \in BOOLEAN : FireBackoff(throws)
    \/ AdvanceTime

BackoffSpec == RetryInit /\ [][BackoffNext]_vars

\* The same, with the event loop running every timer that is set.  Nothing makes an
\* operation promise settle.
BackoffLiveSpec ==
    /\ RetryInit /\ [][BackoffNext]_vars
    /\ WF_vars(AdvanceTime)
    /\ WF_vars(FireTimeout)
    /\ WF_vars(\E throws \in BOOLEAN : FireBackoff(throws))

-----------------------------------------------------------------------------
(* ConcurrentSpec: several withRetry calls for one remote under way at once, started at
   any time, every attempt of which fails: the operation throws, rejects or times out. *)

ConcurrentNext ==
    \/ \E attempts \in 1..2, throws \in BOOLEAN :
           /\ Len(calls) < MaxConcurrentCalls
           /\ Cardinality({c \in 1..Len(calls) : calls[c].pc \in {"race", "backoff"}})
                  < MaxConcurrent
           /\ \A c \in 1..Len(calls) : calls[c].pc \notin {"rejected", "resolved"}
           /\ WithRetry("foo", attempts, throws)
    \/ \E c \in 1..Len(calls), a \in 0..1 :
           /\ calls[c].pc = "race"
           /\ calls[c].i = a
           /\ OperationSettles(c, a, FALSE)
    \/ \E c \in 1..Len(calls) : TakeOutcome(c)
    \/ FireTimeout
    \/ \E throws \in BOOLEAN : FireBackoff(throws)
    \/ FireReset
    \/ AdvanceTime

ConcurrentSpec == RetryInit /\ [][ConcurrentNext]_vars

-----------------------------------------------------------------------------
(* HooksSpec: the plugin as the host runtime drives it, through the four hooks it
   exports and the factories they hand out, in any order and number.  Nothing calls
   withRetry. *)

HooksNext ==
    \/ \E thisName \in ThisNames : BeforeRequest(thisName, [id |-> "foo"])
    \/ \E id \in Ids, from \in Froms, error \in Errors, lifecycle \in Lifecycles :
           /\ ErrorLoadRemote(id, from, error, lifecycle)
           /\ Cardinality(modules') <= MaxModules
    \/ /\ InvokeFactory(factory)
       /\ Cardinality(modules') <= MaxModules
    \/ \E id \in Ids : OnLoad([id |-> id])
    \/ InitHook([id |-> "foo"])

HooksSpec == Init /\ [][HooksNext]_vars

-----------------------------------------------------------------------------
(* CacheSpec: the fallback cache over remote ids and errors whose keys meet. *)

CacheIds == {"", "foo", "foo_x"}
CacheFroms == {"runtime"}
CacheLifecycles == {"loadEntry", "afterResolve", "onLoad"}
Messages == {"", "default", "404", "x_404"}
CacheErrors == {NoError} \cup {Err(m) : m \in Messages}

CacheInit == InitWith(BOOLEAN, {{}, {"foo"}})

CacheNext ==
    \/ \E id \in CacheIds, from \in CacheFroms, error \in CacheErrors,
          lifecycle \in CacheLifecycles :
           /\ ErrorLoadRemote(id, from, error, lifecycle)
           /\ Cardinality(modules') <= MaxCached
    \/ /\ InvokeFactory(factory)
       /\ Cardinality(modules') <= MaxCached

CacheSpec == CacheInit /\ [][CacheNext]_vars

-----------------------------------------------------------------------------
(* FallbackPluginSpec: the lifecycle-based fallback plugin alone.  The host runtime
   calls errorLoadRemote at any lifecycle, several calls may be under way at once, and
   the backup server answers in any way. *)

FallbackPluginNext ==
    \/ \E id \in Ids, lifecycle \in Lifecycles :
           /\ Len(fallbackPluginCalls) < MaxFallbackPluginCalls
           /\ FallbackPluginErrorLoadRemote(id, lifecycle)
    \/ \E c \in 1..Len(fallbackPluginCalls), ok \in BOOLEAN : ImportSettles(c, ok)
    \/ \E c \in 1..Len(fallbackPluginCalls), outcome \in {"throws", "notOk", "ok"} :
           FetchSettles(c, outcome)
    \/ \E c \in 1..Len(fallbackPluginCalls), body \in Bodies : JsonSettles(c, body)

FallbackPluginSpec == RetryInit /\ [][FallbackPluginNext]_vars

-----------------------------------------------------------------------------
(* Properties of the dispatcher, the breaker and the cache *)

FailureCount(remoteId) ==
    IF remoteId \in DOMAIN remoteStates THEN remoteStates[remoteId].failureCount ELSE 0

CircuitOpen(remoteId) == IsCircuitOpen(remoteStates, enableCircuitBreaker, remoteId)

HasResetTimer(remoteId) ==
    \E k \in 1..Len(timers) : timers[k].kind = "reset" /\ timers[k].remoteId = remoteId

Usable(result) ==
    \/ result.kind = "module" /\ result.module # NoModule
    \/ result.kind = "factory" /\ result.closure # NoClosure

\* C1: in every reachable state, for every lifecycle, remote id and error (present or
\* absent), errorLoadRemote raises nothing and returns a module object or a function.
C1_ErrorLoadRemoteReturnsUsable ==
    \A id \in Ids, from \in Froms, error \in Errors, lifecycle \in Lifecycles :
        Usable(ErrorLoadRemoteResult(id, from, error, lifecycle))

\* a failure for foo has been answered from the cache while the circuit of foo is open
C1_Witness ==
    /\ CircuitOpen("foo")
    /\ \E k \in DOMAIN fallbackCache : fallbackCache[k].remoteId = "foo"
    /\ factory.remoteId = "foo"

\* C2: in every reachable state each of the four hooks returns a value to the host
\* runtime and none raises, an open circuit included.
C2_NoHookRaises ==
    /\ \A thisName \in ThisNames : BeforeRequestResult(thisName, [id |-> "foo"]).kind = "args"
    /\ \A id \in Ids, from \in Froms, error \in Errors, lifecycle \in Lifecycles :
           Usable(ErrorLoadRemoteResult(id, from, error, lifecycle))
    /\ \A id \in Ids : OnLoadResult([id |-> id]).kind = "args"
    /\ InitResult([id |-> "foo"]).kind = "args"

\* C3, as claimed: with circuit breaking enabled, a failure record for R that is the
\* threshold-th or later since the last success record for R leaves the circuit of R open.
C3_OpenAfterThresholdFailures ==
    [][\A remoteId \in RetryRemotes :
           (/\ enableCircuitBreaker
            /\ HistoryOf(history', remoteId).run = HistoryOf(history, remoteId).run + 1
            /\ HistoryOf(history', remoteId).run >= CircuitBreakerThreshold)
           => IsCircuitOpen(remoteStates', enableCircuitBreaker', remoteId)]_vars

\* C3, amended: with circuit breaking enabled, once threshold failure records for R have
\* been made with neither a success record nor an auto-reset for R among them, the
\* circuit of R is open.
C3_OpenAfterThresholdCleanFailures ==
    \A remoteId \in RetryRemotes :
        (enableCircuitBreaker /\ HistoryOf(history, remoteId).clean >= CircuitBreakerThreshold)
        => CircuitOpen(remoteId)

\* the circuit of foo has reopened after an auto-reset
C3_Witness ==
    /\ enableCircuitBreaker
    /\ HistoryOf(history, "foo").clean >= CircuitBreakerThreshold
    /\ HistoryOf(history, "foo").run > HistoryOf(history, "foo").clean
    /\ CircuitOpen("foo")

\* C4: whatever the failure count and the circuit were, a success record for R leaves
\* failureCount(R) = 0 and the circuit of R closed: they stay so until the next failure
\* record for R.
C4_SuccessResets ==
    \A remoteId \in DOMAIN history :
        history[remoteId].run = 0
        => /\ remoteId \in DOMAIN remoteStates
           /\ remoteStates[remoteId].failureCount = 0
           /\ ~remoteStates[remoteId].isCircuitOpen
           /\ ~CircuitOpen(remoteId)

\* a success was recorded for foo while its circuit was open: the reset timer of that
\* opening is still pending
C4_Witness ==
    /\ "foo" \in DOMAIN history
    /\ history["foo"].run = 0
    /\ HasResetTimer("foo")

Lookup(remoteId, error) ==
    CreateFallbackModule(fallbackCache, modules, fallbackComponents, remoteId, error)

\* C5: once a cache key holds a module, every later lookup with that key returns that
\* same module and leaves the cache as it is, whatever steps come in between; no entry is
\* removed or replaced.
C5_CacheIsStable ==
    [][/\ \A k \in DOMAIN fallbackCache :
              k \in DOMAIN fallbackCache' /\ fallbackCache'[k] = fallbackCache[k]
       /\ \A id \in Ids, error \in Errors :
              LET remoteId == OrUnknown(id, "")
              IN  CacheKey(remoteId, error) \in DOMAIN fallbackCache
                  => /\ Lookup(remoteId, error)'.module = fallbackCache[CacheKey(remoteId, error)]
                     /\ Lookup(remoteId, error)'.cache = fallbackCache']_vars

\* two modules are cached and the circuit of foo has opened and been reset by its timer
C5_Witness ==
    /\ Cardinality(DOMAIN fallbackCache) = 2
    /\ HistoryOf(history, "foo").run >= CircuitBreakerThreshold
    /\ HistoryOf(history, "foo").clean = 0
    /\ ~CircuitOpen("foo")

\* C6: for one remote R and two failures E1 # E2 (an absent error against an error, an
\* empty or "default" message included), the lookups for (R, E1) and (R, E2) return
\* distinct modules.
C6_DistinctErrorsDistinctModules ==
    \A id \in CacheIds, e1 \in CacheErrors, e2 \in CacheErrors :
        LET remoteId == OrUnknown(id, "runtime")
        IN  (/\ e1 # e2
             /\ CacheKey(remoteId, e1) \in DOMAIN fallbackCache
             /\ CacheKey(remoteId, e2) \in DOMAIN fallbackCache)
            => Lookup(remoteId, e1).module # Lookup(remoteId, e2).module

-----------------------------------------------------------------------------
(* Properties of the retry executor *)

\* the error attempt k of a call ended with
AttemptError(call, k) == IF call.outcomes[k] = "timeout" THEN TimeoutError ELSE OpError(k)

AllFailed(call) ==
    /\ call.pc = "rejected"
    /\ call.attempts >= 1

HasBackoffTimer(c) ==
    \E k \in 1..Len(timers) : timers[k].kind = "backoff" /\ timers[k].call = c

RECURSIVE Waited(_, _)
\* the time a call has spent between the end of an attempt and the start of the next,
\* over its first n attempts
Waited(call, n) ==
    IF n <= 1 THEN 0 ELSE Waited(call, n - 1) + (call.started[n] - call.ended[n - 1])

\* C7: a withRetry call whose attempt k is the first to succeed returns the result of
\* that attempt, has invoked the operation exactly k times, and has reported one success
\* and no failure to the registry, which holds failureCount 0 and a closed circuit for
\* the remote.
C7_FirstSuccessReturns ==
    \A c \in 1..Len(calls) :
        LET call == calls[c]
            k == Len(call.outcomes)
        IN  call.pc = "resolved"
            => /\ k \in 1..call.attempts
               /\ call.outcomes[k] = "ok"
               /\ \A j \in 1..(k - 1) : call.outcomes[j] # "ok"
               /\ call.result = OpResult(k)
               /\ call.opCount = k
               /\ call.nSuccess = 1
               /\ call.nFailure = 0
               /\ FailureCount(call.remoteId) = 0
               /\ ~CircuitOpen(call.remoteId)
               /\ HistoryOf(history, call.remoteId).run = 0

\* the third attempt succeeded after a timeout and a rejection
C7_Witness ==
    \E c \in 1..Len(calls) :
        /\ calls[c].pc = "resolved"
        /\ Len(calls[c].outcomes) = 3
        /\ \E j \in 1..2 : calls[c].outcomes[j] = "timeout"
        /\ \E j \in 1..2 : calls[c].outcomes[j] = "failed"

\* C8: the step at which a withRetry call fails after every one of its attempts failed
\* adds one to failureCount of the remote; over the whole call one failure and no success
\* is reported, none of them before that step; the operation was invoked attempts times
\* and the call fails with the error of its last attempt.
C8_AllFailReportsOnce ==
    [][\A c \in 1..Len(calls') :
           LET call == calls'[c]
               n == call.attempts
           IN  /\ call.pc \in {"race", "backoff"}
                   => call.nFailure = 0 /\ call.nSuccess = 0
               /\ (AllFailed(call) /\ (c > Len(calls) \/ calls[c].pc # "rejected"))
                   => /\ remoteStates'[call.remoteId].failureCount =
                             FailureCount(call.remoteId) + 1
                      /\ call.nFailure = 1
                      /\ call.nSuccess = 0
                      /\ call.opCount = n
                      /\ Len(call.outcomes) = n
                      /\ \A j \in 1..n : call.outcomes[j] # "ok"
                      /\ call.lastError = AttemptError(call, n)]_vars

\* a call of at least two attempts failed, its first attempt with a timeout and its last
\* with the operation's own error
C8_Witness ==
    \E c \in 1..Len(calls) :
        /\ AllFailed(calls[c])
        /\ calls[c].attempts >= 2
        /\ calls[c].outcomes[1] = "timeout"
        /\ calls[c].outcomes[calls[c].attempts] = "failed"
        /\ FailureCount(calls[c].remoteId) = 1

\* C9: a withRetry call in which every attempt so far ended with the timeout has failed
\* only if the operation was invoked attempts times, each attempt lasting fallbackTimeout;
\* it then fails with the error 'Request timeout' and has reported one failure.
C9_TimeoutIsOrdinaryFailure ==
    \A c \in 1..Len(calls) :
        LET call == calls[c]
        IN  (/\ AllFailed(call)
             /\ \A j \in 1..Len(call.outcomes) : call.outcomes[j] = "timeout")
            => /\ call.opCount = call.attempts
               /\ Len(call.outcomes) = call.attempts
               /\ \A j \in 1..call.attempts :
                      call.ended[j] - call.started[j] = FallbackTimeout
               /\ call.lastError.defined
               /\ call.lastError.message = "Request timeout"
               /\ call.nFailure = 1
               /\ call.nSuccess = 0

\* a call of three attempts failed, every attempt with the timeout
C9_Witness ==
    \E c \in 1..Len(calls) :
        /\ AllFailed(calls[c])
        /\ calls[c].attempts = 3
        /\ calls[c].outcomes = <<"timeout", "timeout", "timeout">>
        /\ FailureCount(calls[c].remoteId) = 1

-----------------------------------------------------------------------------
(* Properties of the timed reset, the dispatch by lifecycle and the frame of each hook *)

\* C11: a circuit that opened at time t is closed by nothing but a success record before
\* t + circuitBreakerResetTimeout: a step that closes the circuit of R and is not a
\* success record for R happens no earlier than that, and leaves failureCount(R) = 0.
C11_OpenUntilResetTimeout ==
    [][\A remoteId \in RetryRemotes :
           (/\ FlagOpen(remoteStates, remoteId)
            /\ ~FlagOpen(remoteStates', remoteId)
            /\ HistoryOf(history', remoteId).run # 0)
           => /\ now >= HistoryOf(history, remoteId).openedAt + CircuitBreakerResetTimeout
              /\ remoteStates'[remoteId].failureCount = 0]_vars

\* C12: while the circuit of R is open, errorLoadRemote for R returns, at every
\* lifecycle, the module that createFallbackModule(R, error) returns, itself.
C12_OpenCircuitReturnsModule ==
    \A id \in Ids, from \in Froms, error \in Errors, lifecycle \in Lifecycles :
        LET remoteId == OrUnknown(id, from)
            result == ErrorLoadRemoteResult(id, from, error, lifecycle)
        IN  CircuitOpen(remoteId)
            => /\ result.kind = "module"
               /\ result.module = Lookup(remoteId, error).module

\* C13: with the circuit of the remote closed, errorLoadRemote at lifecycle 'onLoad'
\* returns a factory over the remote id and the error; what a factory yields is the module
\* a direct createFallbackModule call returns for them, an invocation leaves that very
\* module in the cache, and the next invocation yields it again.
C13_FactoryYieldsCachedModule ==
    [][/\ \A id \in Ids, from \in Froms, error \in Errors :
              LET remoteId == OrUnknown(id, from)
                  result == ErrorLoadRemoteResult(id, from, error, "onLoad")
              IN  ~CircuitOpen(remoteId)
                  => /\ result.kind = "factory"
                     /\ result.closure = [remoteId |-> remoteId, error |-> error]
                     /\ FactoryResult(result.closure) = Lookup(remoteId, error).module
       /\ factory # NoClosure
              => LET key == CacheKey(factory.remoteId, factory.error)
                 IN  (factory' = factory /\ key \in DOMAIN fallbackCache')
                     => /\ fallbackCache'[key] = FactoryResult(factory)
                        /\ FactoryResult(factory)' = FactoryResult(factory)]_vars

\* the host holds a factory for foo and the error 404, the circuit of foo is closed after
\* failure records, and the module the factory yields is in the cache
C13_Witness ==
    /\ factory = [remoteId |-> "foo", error |-> Err("404")]
    /\ CacheKey("foo", Err("404")) \in DOMAIN fallbackCache
    /\ fallbackCache[CacheKey("foo", Err("404"))] = FactoryResult(factory)
    /\ FailureCount("foo") > 0
    /\ ~CircuitOpen("foo")

\* C14: with the circuit of the remote closed, errorLoadRemote at lifecycle
\* 'beforeRequest' returns the args it was handed and no fallback module.
C14_BeforeRequestReturnsArgs ==
    \A id \in Ids, from \in Froms, error \in Errors :
        LET result == ErrorLoadRemoteResult(id, from, error, "beforeRequest")
        IN  ~CircuitOpen(OrUnknown(id, from))
            => /\ result.kind = "args"
               /\ result.module = NoModule

\* the lifecycles of the descriptor-load and dependency-resolution stages, and one the
\* switch does not name
ModuleLifecycles == {"afterResolve", "loadEntry", "beforeLoadShare", "unrecognized"}

\* C15: at lifecycles 'afterResolve', 'loadEntry', 'beforeLoadShare' and at an
\* unrecognized one, errorLoadRemote returns the module of createFallbackModule(remoteId,
\* error) itself and no factory; once the module is cached, the same dispatch returns that
\* instance again after any step.
C15_StagesReturnCachedModule ==
    [][\A id \in Ids, from \in Froms, error \in Errors, lifecycle \in ModuleLifecycles :
           LET remoteId == OrUnknown(id, from)
               key == CacheKey(remoteId, error)
               result == ErrorLoadRemoteResult(id, from, error, lifecycle)
           IN  /\ result.kind = "module"
               /\ result.closure = NoClosure
               /\ result.module = Lookup(remoteId, error).module
               /\ key \in DOMAIN fallbackCache'
                      => /\ fallbackCache'[key] = result.module
                         /\ ErrorLoadRemoteResult(id, from, error, lifecycle)' = result]_vars

\* two failures have been answered with a module and none with a factory
C15_Witness ==
    /\ factory = NoClosure
    /\ Cardinality(DOMAIN fallbackCache) = 2
    /\ CacheKey("foo", Err("404")) \in DOMAIN fallbackCache

\* C16: every failure dispatched to errorLoadRemote for a remote adds one to the
\* failureCount of that remote, so that two of them add two.
C16_DispatchedFailureCounts ==
    [][\A id \in Ids, from \in Froms, error \in Errors, lifecycle \in Lifecycles :
           ErrorLoadRemote(id, from, error, lifecycle)
           => FailureCount(OrUnknown(id, from))' = FailureCount(OrUnknown(id, from)) + 1]_vars

\* C17: remotes are isolated.  A step that is no failure record, success record or reset
\* of remote foo leaves failureCount and the circuit of foo as they are, and while foo
\* has no failure record to its name a request to foo passes beforeRequest, whatever
\* the other remotes went through.
C17_RemotesIsolated ==
    [][/\ HistoryOf(history', "foo") = HistoryOf(history, "foo")
              => /\ FailureCount("foo")' = FailureCount("foo")
                 /\ FlagOpen(remoteStates', "foo") = FlagOpen(remoteStates, "foo")
       /\ HistoryOf(history, "foo").run = 0
              => \A thisName \in ThisNames :
                     BeforeRequestResult(thisName, [id |-> "foo"]).kind = "args"]_vars

\* C18: beforeRequest for a request to remote R raises exactly when the circuit that
\* errorLoadRemote and onLoad address for R is open, and returns its args unchanged when
\* that circuit is closed.
C18_BeforeRequestGatesRequestedRemote ==
    \A thisName \in ThisNames, id \in Ids :
        LET args == [id |-> id]
            result == BeforeRequestResult(thisName, args)
        IN  IF CircuitOpen(OrUnknown(id, ""))
            THEN result.kind = "throw"
            ELSE result.kind = "args" /\ result.args = args

\* C19: with timers that fire, an open circuit is eventually closed, a success record or
\* none.
C19_OpenCircuitEventuallyCloses ==
    \A remoteId \in RetryRemotes :
        FlagOpen(remoteStates, remoteId) ~> ~FlagOpen(remoteStates, remoteId)

\* the circuit of foo opened, no success was recorded for foo, and its reset timer has
\* closed it
C19_Witness ==
    /\ HistoryOf(history, "foo").run >= CircuitBreakerThreshold
    /\ HistoryOf(history, "foo").clean = 0
    /\ ~FlagOpen(remoteStates, "foo")
    /\ FailureCount("foo") = 0
    /\ now >= CircuitBreakerResetTimeout

\* C20: an onLoad call for remote R leaves failureCount(R) = 0 and the circuit of R
\* closed, leaves every other remote's state, the cache and the timers as they were, and
\* returns its args; a second onLoad call for R right after it changes nothing.
C20_OnLoadIdempotent ==
    [][\A id \in Ids :
           LET remoteId == OrUnknown(id, "")
               again == UpdateRemoteState(remoteStates', timers', now', enableCircuitBreaker',
                                          remoteId, TRUE)
           IN  OnLoad([id |-> id])
               => /\ FailureCount(remoteId)' = 0
                  /\ ~FlagOpen(remoteStates', remoteId)
                  /\ DOMAIN remoteStates' = DOMAIN remoteStates \cup {remoteId}
                  /\ \A other \in DOMAIN remoteStates \ {remoteId} :
                         remoteStates'[other] = remoteStates[other]
                  /\ fallbackCache' = fallbackCache
                  /\ modules' = modules
                  /\ timers' = timers
                  /\ OnLoadResult([id |-> id]).kind = "args"
                  /\ OnLoadResult([id |-> id]).args = [id |-> id]
                  /\ again.rs = remoteStates'
                  /\ again.tm = timers']_vars

\* onLoad for foo has closed the open circuit of foo while another remote has an entry
\* in the registry and a module is cached
C20_Witness ==
    /\ "foo" \in DOMAIN history
    /\ history["foo"].run = 0
    /\ HasResetTimer("foo")
    /\ "unknown" \in DOMAIN remoteStates
    /\ fallbackCache # <<>>

-----------------------------------------------------------------------------
(* Properties of the breaker's reads, its switch, its timers and the cache key *)

\* C21: isCircuitOpen(remoteId) is a pure read: for every remote id, one never referenced
\* before included, the registry after the call is the registry before it.
C21_IsCircuitOpenIsPure ==
    \A remoteId \in RetryRemotes \cup {PluginName} :
        IsCircuitOpenRegistry(remoteStates, enableCircuitBreaker, remoteId) = remoteStates

\* C22: with enableCircuitBreaker false, in every reachable state isCircuitOpen is false
\* for every remote, no RemoteState has its circuit flag set, no reset timer is pending
\* and beforeRequest returns its args.
C22_DisabledBreakerNeverOpens ==
    ~enableCircuitBreaker
    => /\ \A remoteId \in RetryRemotes \cup {PluginName} :
              ~CircuitOpen(remoteId) /\ ~FlagOpen(remoteStates, remoteId)
       /\ \A k \in 1..Len(timers) : timers[k].kind # "reset"
       /\ \A thisName \in ThisNames :
              BeforeRequestResult(thisName, [id |-> "foo"]).kind = "args"

\* with the breaker disabled, more failure records than the threshold are counted for
\* unknown, the remote beforeRequest looks up
C22_Witness ==
    /\ ~enableCircuitBreaker
    /\ FailureCount("unknown") > CircuitBreakerThreshold
    /\ HistoryOf(history, "unknown").clean > CircuitBreakerThreshold

\* the wait of a call between the end of its attempt k and the start of attempt k + 1
Delay(call, k) == call.started[k + 1] - call.ended[k]

ResetTimersOf(remoteId) ==
    {k \in 1..Len(timers) : timers[k].kind = "reset" /\ timers[k].remoteId = remoteId}

\* C24: in every reachable state at most one reset timer is pending for each remote.
C24_OneResetTimerPerRemote ==
    \A remoteId \in RetryRemotes : Cardinality(ResetTimersOf(remoteId)) <= 1

\* C25: a remote whose circuit is open has failureCount >= circuitBreakerThreshold, and
\* a circuit goes from closed to open only in a step that is a failure record for the
\* remote and brings its count to the threshold or above.
C25_OpenImpliesThreshold ==
    [][\A remoteId \in RetryRemotes \cup {PluginName} :
           /\ FlagOpen(remoteStates, remoteId)
                  => FailureCount(remoteId) >= CircuitBreakerThreshold
           /\ FlagOpen(remoteStates', remoteId)
                  => FailureCount(remoteId)' >= CircuitBreakerThreshold
           /\ (~FlagOpen(remoteStates, remoteId) /\ FlagOpen(remoteStates', remoteId))
                  => /\ HistoryOf(history', remoteId).run =
                            HistoryOf(history, remoteId).run + 1
                     /\ FailureCount(remoteId)' = FailureCount(remoteId) + 1]_vars

\* the circuit of foo is open with one failure more than the threshold on the count
C25_Witness ==
    /\ FlagOpen(remoteStates, "foo")
    /\ FailureCount("foo") = CircuitBreakerThreshold + 1

Running(call) == call.pc \in {"race", "backoff"}

\* C26: with timers that fire, a withRetry call that is under way eventually returns or
\* throws, whether its operation promises settle or not, and at no time has it invoked
\* the operation more than attempts times.
C26_WithRetryTerminates ==
    /\ [](\A c \in 1..Len(calls) :
              Running(calls[c]) \/ Settled(calls[c])
              => calls[c].opCount <= calls[c].attempts)
    /\ (calls # <<>> /\ Running(calls[1])) ~> (calls # <<>> /\ ~Running(calls[1]))

\* a call of four attempts has thrown although none of its operation promises settled
C26_Witness ==
    \E c \in 1..Len(calls) :
        /\ calls[c].pc = "rejected"
        /\ calls[c].attempts = 4
        /\ calls[c].pending = 0..3

\* attempt a of the call is the one whose race is undecided
Racing(call, a) == call.pc = "race" /\ call.i = a

\* C27: the loser of a race changes nothing.  A step in which an operation promise
\* settles, or a timeout timer fires, for an attempt whose race is no longer undecided
\* (the call having returned included) leaves the call's position, result and error and
\* every RemoteState as they were.
C27_RaceLoserHasNoEffect ==
    [][\A c \in 1..Len(calls) :
           LET unaffected == /\ remoteStates' = remoteStates
                             /\ history' = history
                             /\ [calls'[c] EXCEPT !.pending = calls[c].pending] = calls[c]
           IN  /\ \A a \in 0..MaxAttempts, ok \in BOOLEAN :
                      (OperationSettles(c, a, ok) /\ ~Racing(calls[c], a)) => unaffected
               /\ (/\ FireTimeout
                   /\ timers[NextTimer].call = c
                   /\ ~Racing(calls[c], timers[NextTimer].attempt)) => unaffected]_vars

\* a call returned the result of its second attempt; the promise of the first attempt,
\* which had timed out, has settled since, and the timeout of the second has fired
C27_Witness ==
    \E c \in 1..Len(calls) :
        /\ calls[c].pc = "resolved"
        /\ calls[c].outcomes = <<"timeout", "ok">>
        /\ calls[c].pending = {}
        /\ timers = <<>>

\* C28: there is no half-open state.  The reset callback of remote R leaves
\* failureCount(R) = 0 and the circuit closed; the circuit of R is closed while fewer
\* than circuitBreakerThreshold failure records have been made since the last reset or
\* success record, so that one failure after a reset does not reopen it.
C28_NoHalfOpen ==
    [][\A remoteId \in RetryRemotes :
           /\ (FireReset /\ timers[NextTimer].remoteId = remoteId)
                  => /\ FailureCount(remoteId)' = 0
                     /\ ~FlagOpen(remoteStates', remoteId)
           /\ HistoryOf(history', remoteId).clean < CircuitBreakerThreshold
                  => /\ ~FlagOpen(remoteStates', remoteId)
                     /\ FailureCount(remoteId)' = HistoryOf(history', remoteId).clean]_vars

\* the circuit of foo was reset by its timer and one failure has been recorded since:
\* the circuit is closed
C28_Witness ==
    /\ enableCircuitBreaker
    /\ HistoryOf(history, "foo").run = CircuitBreakerThreshold + 1
    /\ HistoryOf(history, "foo").clean = 1
    /\ FailureCount("foo") = 1
    /\ ~FlagOpen(remoteStates, "foo")

\* C29: a withRetry call for remote R started while the circuit of R is open does not
\* invoke the operation.
C29_OpenCircuitSkipsOperation ==
    [][Len(calls') = Len(calls) + 1
       => LET call == calls'[Len(calls')]
          IN  CircuitOpen(call.remoteId) => call.opCount = 0]_vars

\* C30: the module a lookup for remote R returns was built for R, and lookups for two
\* different remotes never return the same module.
C30_LookupReturnsOwnRemotesModule ==
    \A id1 \in CacheIds, id2 \in CacheIds, e1 \in CacheErrors, e2 \in CacheErrors :
        LET r1 == OrUnknown(id1, "runtime")
            r2 == OrUnknown(id2, "runtime")
        IN  /\ Lookup(r1, e1).module.remoteId = r1
            /\ (r1 # r2 /\ CacheKey(r1, e1) \in DOMAIN fallbackCache)
                   => Lookup(r1, e1).module # Lookup(r2, e2).module

-----------------------------------------------------------------------------
(* Properties of the frame between cache and registry, the fallback components, and
   withRetry under interleaving and at its edges *)

\* C31: the cache and the registry are independent.  A step that records a failure or a
\* success, fires a reset or schedules a timer leaves the cache and the modules as they
\* are; a step that changes the cache leaves every existing RemoteState, every count and
\* circuit, and the timers as they are; and a factory invocation, which is one
\* createFallbackModule call, leaves the whole registry as it is.
C31_CacheAndRegistryIndependent ==
    [][/\ (history' # history \/ timers' # timers)
              => fallbackCache' = fallbackCache /\ modules' = modules
       /\ (fallbackCache' # fallbackCache \/ modules' # modules)
              => /\ timers' = timers
                 /\ history' = history
                 /\ \A remoteId \in DOMAIN remoteStates :
                        remoteStates'[remoteId] = remoteStates[remoteId]
                 /\ \A remoteId \in DOMAIN remoteStates' :
                        /\ FailureCount(remoteId)' = FailureCount(remoteId)
                        /\ FlagOpen(remoteStates', remoteId) = FlagOpen(remoteStates, remoteId)
       /\ InvokeFactory(factory) => remoteStates' = remoteStates]_vars

\* foo has a cached fallback while its circuit is closed with failureCount 0, after its
\* circuit had opened and a success was recorded
C31_Witness ==
    /\ CacheKey("foo", Err("404")) \in DOMAIN fallbackCache
    /\ "foo" \in DOMAIN remoteStates
    /\ FailureCount("foo") = 0
    /\ ~FlagOpen(remoteStates, "foo")
    /\ HasResetTimer("foo")

\* C32: the module createFallbackModule returns for remote R carries, as its default
\* export and under the key R, the component the configuration supplies for R when it
\* supplies one, and otherwise a generated placeholder that names R.
C32_ModuleCarriesOwnComponent ==
    \A id \in CacheIds, error \in CacheErrors :
        LET remoteId == OrUnknown(id, "runtime")
            module == Lookup(remoteId, error).module
        IN  /\ module.remoteId = remoteId
            /\ IF remoteId \in fallbackComponents
               THEN /\ module.component.kind = "custom"
                    /\ module.component.displayName = remoteId
               ELSE /\ module.component.kind = "generated"
                    /\ module.component.displayName = "FallbackComponent_" \o remoteId

\* the withRetry calls that have thrown, their outcome taken or not
Finished == {c \in 1..Len(calls) : calls[c].pc \in {"rejected", "taken"}}

\* C33: no failure report is lost under interleaving.  With several withRetry calls for
\* foo under way at once, all of whose attempts fail, failureCount(foo) is the number of
\* calls that have finished while no reset has fired, and the failure records since the
\* last reset after one; and while no reset has fired the circuit is open exactly when
\* that number has reached the threshold.
C33_NoLostUpdates ==
    LET h == HistoryOf(history, "foo")
        N == Cardinality(Finished)
    IN  /\ h.run = N
        /\ FailureCount("foo") = h.clean
        /\ h.run = h.clean =>
               /\ FailureCount("foo") = N
               /\ FlagOpen(remoteStates, "foo") <=> N >= CircuitBreakerThreshold

\* three calls have finished, the second and the third of them under way at once and
\* each ending after the other began; the count is 3 and the circuit is open
C33_Witness ==
    /\ Len(calls) = 3
    /\ calls[2].pc = "rejected"
    /\ calls[3].pc = "rejected"
    /\ calls[2].started[1] < calls[3].settledAt
    /\ calls[3].started[1] < calls[2].settledAt
    /\ Len(calls[2].outcomes) = 2
    /\ FailureCount("foo") = 3
    /\ FlagOpen(remoteStates, "foo")

C35_FailureFollowsAnAttempt ==
    \A c \in 1..Len(calls) :
        calls[c].pc = "rejected" =>
            /\ calls[c].nFailure = 1
            /\ calls[c].opCount >= 1
            /\ calls[c].lastError.defined
            /\ calls[c].lastError \in {TimeoutError} \cup {OpError(k) : k \in 1..calls[c].opCount}

C37_FallbackPluginAlwaysResolvesTruthy ==
    \A c \in 1..Len(fallbackPluginCalls) :
        LET call == fallbackPluginCalls[c]
        IN  /\ call.pc = "rejected" => call.args.lifecycle = "onLoad"
            /\ call.pc = "resolved" =>
                   /\ ToBoolean(call.result)
                   /\ CASE call.args.lifecycle = "onLoad" ->
                               /\ call.result = JsFunction("factory")
                               /\ FallbackFactoryResult.default = FallbackComponent
                        [] call.args.lifecycle = "afterResolve" ->
                               IF call.fetched = "ok" /\ JsonParse(call.body).ok
                               THEN call.result = JsonParse(call.body).value
                               ELSE call.result = JsObject("args")
                        [] OTHER -> call.result = JsObject("args")

====
